---- MODULE Spec2Model ----
(***************************************************************************)
(* Gesture interpretation engine of blinkspeak                             *)
(* (src/src/pages/BlinkDetector.tsx, component GestureDetection).          *)
(*                                                                         *)
(* Time is Date.now() in milliseconds.  Scores are hundredths (0.5 is 50), *)
(* landmark coordinates are thousandths of the normalised image size, and  *)
(* the multipliers 1.15, 1.2 and 0.9 are percentages.  The source computes *)
(* in IEEE doubles; here a length is held by its square and a sum of       *)
(* lengths by an enclosing interval, so no root is rounded.  A comparison  *)
(* whose two sides are equal, or whose bound lies inside the interval, is  *)
(* decided in the source by the rounding of the operands, which the grid   *)
(* does not determine: it yields both outcomes, and a detector yields the  *)
(* set of states it can leave.                                             *)
(*                                                                         *)
(* gestureStateRef.current is replaced by a fresh object on every question *)
(* selection and gesture switch, while timer callbacks keep the object     *)
(* they captured (const state = gestureStateRef.current).  objs is the     *)
(* heap of those objects and cur the index gestureStateRef points at.      *)
(* React state read inside a callback is the value of the render that      *)
(* created the callback; a detection loop carries the values it captured.  *)
(***************************************************************************)
EXTENDS Integers, Sequences, FiniteSets, TLC

VARIABLES
    now,                \* Date.now()
    video,              \* what the tracker reports for the video at this instant
    eyes,               \* the eye closures in the video so far: when the eyes
                        \* shut and when they opened (0 while they are shut)
    resets,             \* question selections and gesture switches so far
    objs,               \* heap of gesture state objects, by slot
    cur,                \* gestureStateRef.current = objs[cur]
    timers,             \* scheduled setTimeout callbacks that have not run
    gestureTimeoutRef,  \* gestureTimeoutRef.current: a timer handle or NoTimer
    loops,              \* running requestAnimationFrame detection loops
    activeGesture,      \* React state activeGesture
    isDetectionActive,  \* React state isDetectionActive (latest render)
    detectionState,     \* React state detectionState
    cands,              \* log of processGestureResponse calls (RawCandidates)
    finals,             \* log of handleGestureResponse calls (FinalSignals)
    faceLandmarkerRef,  \* faceLandmarkerRef.current is set (the model is loaded)
    videoHasData,       \* video.readyState === HAVE_ENOUGH_DATA
    initPhase,          \* how far initializeFaceLandmarker / setupCamera got
    fallbackDue,        \* when the fallback setTimeout of setupCamera is due
    calibrationMode,    \* React state calibrationMode
    calibrationProgress,\* React state calibrationProgress
    calibrationRuns,    \* calibrateGesture calls waiting in their 500 ms delay
    progressLog,        \* log of the setCalibrationProgress calls of the loop
    blinkStateRef,      \* BlinkDetection: blinkStateRef.current
    blinkCounterRef,    \* BlinkDetection: blinkCounterRef.current
    lastBlinkRef,       \* BlinkDetection: lastBlinkRef.current
    blinkTimers,        \* BlinkDetection: scheduled setTimeout callbacks
    showResponse,       \* BlinkDetection: React state showResponse
    currentQuestionIndex, \* BlinkDetection: React state currentQuestionIndex
    userResponsesRef,   \* BlinkDetection: userResponsesRef.current
    navigated,          \* BlinkDetection: navigate('/') has been called
    responses,          \* BlinkDetection: log of the response handler calls
    frameSeen           \* BlinkDetection: detect has run on the frame of this instant

\* initialisation outcome of GestureDetection
initVars == <<faceLandmarkerRef, videoHasData, initPhase, fallbackDue>>

\* calibration of GestureDetection
calibrationVars == <<calibrationMode, calibrationProgress, calibrationRuns, progressLog>>

\* the early component BlinkDetection
earlyVars == <<blinkStateRef, blinkCounterRef, lastBlinkRef, blinkTimers, showResponse,
               currentQuestionIndex, userResponsesRef, navigated, responses, frameSeen>>

vars == <<now, video, eyes, resets, objs, cur, timers, gestureTimeoutRef, loops,
          activeGesture, isDetectionActive, detectionState, cands, finals,
          initVars, calibrationVars, earlyVars>>

----------------------------------------------------------------------------
(* Bounds of the model *)

StartTime == 1000       \* Date.now() when the page is ready
MaxTime == 4000         \* the clock is not advanced beyond this
MaxResets == 3          \* question selections and gesture switches in one behaviour
MaxBlinks == 3          \* eye closures in the video of one behaviour
SessionEnd == 2800      \* Spec: the clock is not advanced beyond this
MaxClosures == 2        \* Spec: eye closures in the video of one behaviour
FaceEnd == 3200         \* SpecFace: the clock is not advanced beyond this

----------------------------------------------------------------------------
(* detectionConfig and the literals of the source *)

BLINK_THRESHOLD == 50           \* blink.threshold 0.5
minDuration == 30
maxDuration == 350
doubleBlinkWindow == 500
confirmationDelay == 800
blinkHistoryWindow == 2000      \* currentTime - time < 2000
SMILE_DURATION == 1200
smileThresholdMultiplier == 115 \* 1.15
NOD_COOLDOWN == 600
nodThresholdMultiplier == 120   \* 1.2
nodReleasePercent == 90         \* nodThreshold * 0.9
WAVE_THRESHOLD == 60            \* 0.06
WAVE_COOLDOWN == 600
historySize == 15
waveMinHistory == 5             \* handPositionHistory.length < 5
detectionInterval == 16
gateHoldDelay == 800            \* setTimeout(..., 800) in processGestureResponse

GestureTypes == {"blink", "smile", "nod", "handWave"}

Null == "null"
NoTimer == 0                      \* gestureTimeoutRef.current undefined
Missing == [x |-> -1, y |-> -1]   \* landmarks[i] undefined
NoScore == -1                     \* blendshape category not present

----------------------------------------------------------------------------
(* The gesture state object *)

InitialGestureState ==
    [isBlinking |-> FALSE, blinkStartTime |-> 0, blinkCounter |-> 0,
     lastBlinkTime |-> 0, blinkHistory |-> <<>>, pendingBlinkResponse |-> Null,
     smileStartTime |-> 0, smileDetected |-> FALSE,
     neutralMouthWidth |-> [squared |-> 0],
     isSmiling |-> FALSE, pendingSmileResponse |-> Null,
     nodStartTime |-> 0, nodDetected |-> FALSE, headPitch |-> 0,
     neutralHeadPitch |-> 0, nodCount |-> 0, lastNodTime |-> 0,
     isNodding |-> FALSE, pendingNodResponse |-> Null,
     waveStartTime |-> 0, waveDetected |-> FALSE, handPositionHistory |-> <<>>,
     waveCount |-> 0, lastWaveTime |-> 0, isWaving |-> FALSE,
     pendingWaveResponse |-> Null]

----------------------------------------------------------------------------
(* Helpers *)

Abs(n) == IF n < 0 THEN -n ELSE n

(* Numbers.  The coordinates of a frame are held in thousandths.  The      *)
(* code computes in doubles; the model computes exactly and never rounds   *)
(* a root: a length is held as the number under its root, two lengths are  *)
(* compared by their squares, and a sum of lengths is held between the     *)
(* two integers that enclose it.  Where the exact values of a comparison   *)
(* are equal, or the enclosing integers do not decide it, the outcome of   *)
(* the comparison of the doubles depends on their rounding, which the      *)
(* grid does not determine: a comparison yields the set of the outcomes    *)
(* it can have, and a detector the set of the states it can produce.       *)

\* a > b on doubles whose exact values are a and b
GreaterThan(a, b) == IF a = b THEN BOOLEAN ELSE {a > b}

\* a <= b on doubles whose exact values are a and b
AtMost(a, b) == IF a = b THEN BOOLEAN ELSE {a < b}

\* a < b on doubles whose exact values are a and b
LessThan(a, b) == IF a = b THEN BOOLEAN ELSE {a < b}

\* the largest integer whose square is at most n
RECURSIVE RootFloor(_)
RootFloor(n) ==
    IF n < 2 THEN n
    ELSE LET r == 2 * RootFloor(n \div 4)
         IN IF (r + 1) * (r + 1) <= n THEN r + 1 ELSE r

\* the smallest integer whose square is at least n
RootCeil(n) ==
    LET r == RootFloor(n) IN IF r * r = n THEN r ELSE r + 1

\* how many units of a sum of lengths make a unit of the coordinates of
\* the points the lengths lie between
RootScale == 10

\* Math.sqrt(n), enclosed: lo <= RootScale * sqrt(n) <= hi, with lo = hi
\* exactly when the root is a whole number of units
EnclosedRoot(n) ==
    [lo |-> RootFloor(RootScale * RootScale * n),
     hi |-> RootCeil(RootScale * RootScale * n)]

\* Math.sqrt(Math.pow(dx, 2) + Math.pow(dy, 2)), held as the number under
\* the root: a length of d units is [squared |-> d * d]
calculateDistance(point1, point2) ==
    [squared |-> (point2.x - point1.x) * (point2.x - point1.x)
                 + (point2.y - point1.y) * (point2.y - point1.y)]

\* the length 0: neutralMouthWidth before a baseline is taken
NoLength == [squared |-> 0]

RECURSIVE Gcd(_, _)
Gcd(a, b) == IF b = 0 THEN a ELSE Gcd(b, a % b)

\* length > base * percent / 100 on doubles, for two lengths: their
\* squares are compared, the percentage in lowest terms
LongerThan(length, base, percent) ==
    LET g == Gcd(percent, 100)
        n == percent \div g
        d == 100 \div g
    IN GreaterThan(length.squared * d * d, base.squared * n * n)

\* blendshapes.find(...)?.score || 0
ScoreOrZero(score) == IF score = NoScore THEN 0 ELSE score

\* the first n elements of s instead of the last
SliceFirst(s, n) ==
    IF Len(s) <= n THEN s ELSE SubSeq(s, 1, n)

\* the last n elements of s: s.slice(-n)
SliceLast(s, n) ==
    IF Len(s) <= n THEN s ELSE SubSeq(s, Len(s) - n + 1, Len(s))

\* the sum of the distances between consecutive points of h, enclosed,
\* in units of which RootScale make a unit of the coordinates of h
RECURSIVE totalMovement(_)
totalMovement(h) ==
    IF Len(h) < 2 THEN [lo |-> 0, hi |-> 0]
    ELSE LET d == EnclosedRoot(calculateDistance(h[Len(h) - 1], h[Len(h)]).squared)
             rest == totalMovement(SubSeq(h, 1, Len(h) - 1))
         IN [lo |-> rest.lo + d.lo, hi |-> rest.hi + d.hi]

\* sum > bound on doubles, for an enclosed sum and an exact bound
ExceedsBound(sum, bound) ==
    IF sum.lo = sum.hi THEN GreaterThan(sum.lo, bound)
    ELSE IF sum.lo >= bound THEN {TRUE}
    ELSE IF sum.hi <= bound THEN {FALSE}
    ELSE BOOLEAN

\* sum < bound on doubles, for an enclosed sum and an exact bound
BelowBound(sum, bound) ==
    IF sum.lo = sum.hi THEN LessThan(sum.lo, bound)
    ELSE IF sum.hi <= bound THEN {TRUE}
    ELSE IF sum.lo >= bound THEN {FALSE}
    ELSE BOOLEAN

GateTimers == {t \in timers : t.kind = "gate"}
DeferredTimers == {t \in timers : t.kind = "deferred"}

\* the instants at which the scheduled callbacks of GestureDetection are due
DueTimes ==
    {t.due : t \in timers} \cup {r.due : r \in calibrationRuns}
        \cup (IF fallbackDue = NoTimer THEN {} ELSE {fallbackDue})

\* the earliest instant at which a scheduled callback is due
NextDue == IF DueTimes = {} THEN MaxTime
           ELSE CHOOSE d \in DueTimes : \A e \in DueTimes : d <= e

----------------------------------------------------------------------------
(* Confirmation gate.  A detector call works on the record                 *)
(*   m = [slot, st, timers, ref, cands]                                    *)
(* holding the slot and value of the current state object, the timer       *)
(* table, gestureTimeoutRef and the candidate log.  A timer is a record;   *)
(* the handle setTimeout returns for a hold timer is the instant it is     *)
(* due.  beforeQuestion and beforeGesture of a timer or candidate tell     *)
(* that the frames it comes from were consumed before a later question     *)
(* selection or a later change of the active gesture.                      *)

Fresh == [beforeQuestion |-> FALSE, beforeGesture |-> FALSE]

\* clearTimeout(handle)
clearTimeout(table, handle) ==
    {t \in table : ~(t.kind = "gate" /\ t.due = handle)}

\* the previous hold timer is left running
KeepGestureTimeout(m) == m.timers

\* if (gestureTimeoutRef.current) clearTimeout(gestureTimeoutRef.current)
clearGestureTimeout(m) ==
    IF m.ref # NoTimer THEN clearTimeout(m.timers, m.ref) ELSE m.timers

\* a response that is already pending is kept
KeepFirstPending(st, response, gestureType) ==
    CASE gestureType = "blink" ->
           IF st.pendingBlinkResponse = Null
           THEN [st EXCEPT !.pendingBlinkResponse = response] ELSE st
      [] gestureType = "smile" -> [st EXCEPT !.pendingSmileResponse = response]
      [] gestureType = "nod" -> [st EXCEPT !.pendingNodResponse = response]
      [] gestureType = "handWave" -> [st EXCEPT !.pendingWaveResponse = response]

setPending(st, response, gestureType) ==
    CASE gestureType = "blink" -> [st EXCEPT !.pendingBlinkResponse = response]
      [] gestureType = "smile" -> [st EXCEPT !.pendingSmileResponse = response]
      [] gestureType = "nod" -> [st EXCEPT !.pendingNodResponse = response]
      [] gestureType = "handWave" -> [st EXCEPT !.pendingWaveResponse = response]

processGestureResponse(m, response, gestureType, origin) ==
    LET t == [kind |-> "gate", due |-> now + gateHoldDelay, obj |-> m.slot,
              response |-> response, gestureType |-> gestureType,
              beforeQuestion |-> origin.beforeQuestion,
              beforeGesture |-> origin.beforeGesture]
    IN [slot |-> m.slot,
        st |-> setPending(m.st, response, gestureType),
        timers |-> clearGestureTimeout(m) \cup {t},
        ref |-> t.due,
        cands |-> Append(m.cands, [value |-> response, gestureType |-> gestureType,
                                   active |-> activeGesture, at |-> now,
                                   beforeQuestion |-> origin.beforeQuestion,
                                   beforeGesture |-> origin.beforeGesture])]

----------------------------------------------------------------------------
(* Detectors.  s is the frame: the blendshape scores and the landmarks     *)
(* the detectors read.                                                     *)

\* the duration range with its ends included
GenuineInclusive(blinkDuration) ==
    blinkDuration >= minDuration /\ blinkDuration <= maxDuration

\* blinkDuration > minDuration && blinkDuration < maxDuration
isGenuineBlink(blinkDuration) ==
    blinkDuration > minDuration /\ blinkDuration < maxDuration

\* the window comparison turned around
OutsideWindow(timeBetweenBlinks) == timeBetweenBlinks > doubleBlinkWindow

\* timeBetweenBlinks < detectionConfig.blink.doubleBlinkWindow
isDoubleBlink(timeBetweenBlinks) == timeBetweenBlinks < doubleBlinkWindow

\* the filter keeping the old entries instead of the recent ones
StaleBlinks(history) ==
    SelectSeq(history, LAMBDA time : now - time > blinkHistoryWindow)

\* state.blinkHistory.filter(time => currentTime - time < 2000)
recentBlinks(history) ==
    SelectSeq(history, LAMBDA time : now - time < blinkHistoryWindow)

\* the deferred check submitting whatever the history holds
AlwaysConfirmed(state) == TRUE

\* the deferred check not minding a blink that arrived after its own
ConfirmedDespiteLater(state) ==
    Len(state.blinkHistory) >= 1 /\ state.pendingBlinkResponse = Null

\* state.blinkHistory.length === 1 && !state.pendingBlinkResponse
singleBlinkConfirmed(state) ==
    Len(state.blinkHistory) = 1 /\ state.pendingBlinkResponse = Null

\* the deferred single-blink check scheduled by detectBlink
deferredCheck(m) ==
    [kind |-> "deferred", due |-> now + confirmationDelay, obj |-> m.slot,
     response |-> Null, gestureType |-> "blink",
     beforeQuestion |-> FALSE, beforeGesture |-> FALSE]

detectBlink(m, s) ==
    LET leftEyeBlink == ScoreOrZero(s.eyeBlinkLeft)
        rightEyeBlink == ScoreOrZero(s.eyeBlinkRight)
        avgBlink2 == leftEyeBlink + rightEyeBlink     \* twice avgBlink
        state == m.st
    IN IF avgBlink2 > 2 * BLINK_THRESHOLD /\ ~state.isBlinking
       THEN [m EXCEPT !.st.isBlinking = TRUE, !.st.blinkStartTime = now]
       ELSE IF avgBlink2 < 2 * BLINK_THRESHOLD /\ state.isBlinking
       THEN LET blinkDuration == now - state.blinkStartTime
                m1 == [m EXCEPT !.st.isBlinking = FALSE]
            IN IF isGenuineBlink(blinkDuration)
               THEN LET history == recentBlinks(Append(state.blinkHistory, now))
                        n == Len(history)
                        m2 == [m1 EXCEPT !.st.blinkHistory = history]
                    IN IF n >= 2 /\ isDoubleBlink(history[n] - history[n - 1])
                       THEN [processGestureResponse(m2, "no", "blink", Fresh)
                                EXCEPT !.st.blinkHistory = <<>>]
                       ELSE [m2 EXCEPT
                                !.timers = IF n = 1 THEN @ \cup {deferredCheck(m)}
                                           ELSE @,
                                !.st.lastBlinkTime = now]
               ELSE m1
       ELSE m

\* the baseline taken anew on every frame
BaselineNeverKept(baseline) == TRUE

\* state.neutralMouthWidth === 0, state.neutralHeadPitch === 0
baselineUnset(baseline) == baseline = 0

\* mouthWidth > smileThreshold, smileThreshold = neutralMouthWidth * 1.15
smileAbove(mouthWidth, neutralMouthWidth) ==
    LongerThan(mouthWidth, neutralMouthWidth, smileThresholdMultiplier)

\* detectSmile once mouthWidth > smileThreshold has come out as above;
\* mouthWidth <= smileThreshold compares the same doubles
smileBranches(m, above) ==
    LET state == m.st
    IN IF above /\ ~state.isSmiling
       THEN [m EXCEPT !.st.isSmiling = TRUE, !.st.smileStartTime = now]
       ELSE IF above /\ state.isSmiling
       THEN IF now - state.smileStartTime >= SMILE_DURATION
               /\ state.pendingSmileResponse = Null
            THEN processGestureResponse(m, "yes", "smile", Fresh)
            ELSE m
       ELSE [(IF state.isSmiling /\ state.pendingSmileResponse = Null
              THEN processGestureResponse(m, "no", "smile", Fresh)
              ELSE m)
                EXCEPT !.st.isSmiling = FALSE]

detectSmile(m, s) ==
    LET state == m.st
        mouthLeft == s.mouthLeft
        mouthRight == s.mouthRight
    IN IF mouthLeft = Missing \/ mouthRight = Missing THEN {m}
       ELSE
       LET mouthWidth == calculateDistance(mouthLeft, mouthRight)
       IN IF baselineUnset(state.neutralMouthWidth.squared)
          THEN {[m EXCEPT !.st.neutralMouthWidth = mouthWidth]}
          ELSE {smileBranches(m, above) :
                   above \in smileAbove(mouthWidth, state.neutralMouthWidth)}

\* verticalDistance > nodThreshold, nodThreshold = neutralHeadPitch * 1.2
nodAbove(verticalDistance, neutralHeadPitch) ==
    GreaterThan(verticalDistance * 100, neutralHeadPitch * nodThresholdMultiplier)

\* the nod released as soon as the distance is back at the threshold
ReleasedAtThreshold(verticalDistance, neutralHeadPitch) ==
    AtMost(verticalDistance * 100, neutralHeadPitch * nodThresholdMultiplier)

\* verticalDistance <= nodThreshold * 0.9
nodReleased(verticalDistance, neutralHeadPitch) ==
    AtMost(verticalDistance * 100 * 100,
           neutralHeadPitch * nodThresholdMultiplier * nodReleasePercent)

\* the cooldown over at the very instant it ends
CooldownInclusive(elapsed) == elapsed >= NOD_COOLDOWN

\* currentTime - state.lastNodTime > NOD_COOLDOWN
nodCooldownOver(elapsed) == elapsed > NOD_COOLDOWN

\* detectNod once the two comparisons with nodThreshold have come out as
\* above and released
nodBranches(m, above, released) ==
    LET state == m.st
        m1 == IF above /\ ~state.isNodding
              THEN [m EXCEPT !.st.isNodding = TRUE,
                             !.st.nodCount = @ + 1,
                             !.st.lastNodTime = now]
              ELSE IF released THEN [m EXCEPT !.st.isNodding = FALSE]
              ELSE m
        st1 == m1.st
    IN IF st1.nodCount > 0 /\ nodCooldownOver(now - st1.lastNodTime)
          /\ st1.pendingNodResponse = Null
       THEN [(IF st1.nodCount = 1
              THEN processGestureResponse(m1, "yes", "nod", Fresh)
              ELSE processGestureResponse(m1, "no", "nod", Fresh))
                EXCEPT !.st.nodCount = 0]
       ELSE m1

detectNod(m, s) ==
    LET state == m.st
        noseTip == s.noseTip
        forehead == s.forehead
    IN IF noseTip = Missing \/ forehead = Missing THEN {m}
       ELSE
       LET verticalDistance == Abs(noseTip.y - forehead.y)
       IN IF baselineUnset(state.neutralHeadPitch)
          THEN {[m EXCEPT !.st.neutralHeadPitch = verticalDistance]}
          ELSE {nodBranches(m, above, released) :
                   above \in nodAbove(verticalDistance, state.neutralHeadPitch),
                   released \in nodReleased(verticalDistance, state.neutralHeadPitch)}

\* the cooldown over at the very instant it ends
WaveCooldownInclusive(elapsed) == elapsed >= WAVE_COOLDOWN

\* currentTime - state.lastWaveTime > WAVE_COOLDOWN
waveCooldownOver(elapsed) == elapsed > WAVE_COOLDOWN

\* the points of handPositionHistory are held in half thousandths, so
\* that the middle of two coordinates is their sum; totalMovement is then
\* in units of which 2 * RootScale make a thousandth
waveAbove(movement) == ExceedsBound(movement, WAVE_THRESHOLD * 2 * RootScale)

\* totalMovement < WAVE_THRESHOLD * 0.5
waveBelow(movement) == BelowBound(movement, WAVE_THRESHOLD * RootScale)

\* detectHandWave once the two comparisons with WAVE_THRESHOLD have come
\* out as above and below
waveBranches(m0, above, below) ==
    LET m1 == IF above /\ ~m0.st.isWaving
              THEN [m0 EXCEPT !.st.isWaving = TRUE,
                              !.st.waveCount = @ + 1,
                              !.st.lastWaveTime = now]
              ELSE IF below THEN [m0 EXCEPT !.st.isWaving = FALSE]
              ELSE m0
        st1 == m1.st
    IN IF st1.waveCount > 0 /\ waveCooldownOver(now - st1.lastWaveTime)
          /\ st1.pendingWaveResponse = Null
       THEN [(IF st1.waveCount = 1
              THEN processGestureResponse(m1, "yes", "handWave", Fresh)
              ELSE processGestureResponse(m1, "no", "handWave", Fresh))
                EXCEPT !.st.waveCount = 0,
                       !.st.handPositionHistory = <<>>]
       ELSE m1

detectHandWave(m, s) ==
    LET state == m.st
        faceLeft == s.faceLeft
        faceRight == s.faceRight
    IN IF faceLeft = Missing \/ faceRight = Missing THEN {m}
       ELSE
       LET \* (faceLeft + faceRight) / 2, in half thousandths
           currentPosition == [x |-> faceLeft.x + faceRight.x,
                               y |-> faceLeft.y + faceRight.y]
           history == SliceLast(Append(state.handPositionHistory, currentPosition),
                                historySize)
           m0 == [m EXCEPT !.st.handPositionHistory = history]
       IN IF Len(history) < waveMinHistory THEN {m0}
          ELSE
          LET movement == totalMovement(history)
          IN {waveBranches(m0, above, below) :
                 above \in waveAbove(movement), below \in waveBelow(movement)}

\* the detector calls of one face-detected frame:
\* detectBlink; detectSmile; detectNod; detectHandWave, in this order
runDetectors(m, s) ==
    LET afterSmile == detectSmile(detectBlink(m, s), s)
        afterNod == UNION {detectNod(m2, s) : m2 \in afterSmile}
    IN UNION {detectHandWave(m3, s) : m3 \in afterNod}

----------------------------------------------------------------------------
(* Frames fed to the detectors *)

Neutral ==
    [faceDetected |-> TRUE, eyeBlinkLeft |-> 0, eyeBlinkRight |-> 0,
     mouthLeft |-> [x |-> 480, y |-> 600], mouthRight |-> [x |-> 520, y |-> 600],
     noseTip |-> [x |-> 500, y |-> 500], forehead |-> [x |-> 500, y |-> 400],
     faceLeft |-> [x |-> 400, y |-> 500], faceRight |-> [x |-> 600, y |-> 500]]

EyesClosed == [Neutral EXCEPT !.eyeBlinkLeft = 90, !.eyeBlinkRight = 90]

Smiling == [Neutral EXCEPT !.mouthLeft = [x |-> 475, y |-> 600],
                           !.mouthRight = [x |-> 525, y |-> 600]]

Nodding == [Neutral EXCEPT !.noseTip = [x |-> 500, y |-> 530]]

\* the face at rest with the middle between its edges at x = c
FaceAt(c) == [Neutral EXCEPT !.faceLeft = [x |-> c - 100, y |-> 500],
                             !.faceRight = [x |-> c + 100, y |-> 500]]

\* the face at rest with the nose tip p thousandths below the forehead
NodPitch(p) == [Neutral EXCEPT !.noseTip = [x |-> 500, y |-> 400 + p]]

NoFace == [Neutral EXCEPT !.faceDetected = FALSE]

\* a face whose blink categories and landmarks are missing from the result
Malformed ==
    [faceDetected |-> TRUE, eyeBlinkLeft |-> NoScore, eyeBlinkRight |-> NoScore,
     mouthLeft |-> Missing, mouthRight |-> Missing,
     noseTip |-> Missing, forehead |-> Missing,
     faceLeft |-> Missing, faceRight |-> Missing]

\* the eyes are closed in frame s
EyesShut(s) ==
    s.faceDetected
    /\ ScoreOrZero(s.eyeBlinkLeft) + ScoreOrZero(s.eyeBlinkRight) > 2 * BLINK_THRESHOLD

Samples == {Neutral, EyesClosed}

TickSteps == {200}

----------------------------------------------------------------------------
(* The machine *)

Slots == 1..(MaxResets + 1)

Init ==
    /\ now = StartTime
    /\ video = Neutral
    /\ eyes = <<>>
    /\ resets = 0
    /\ objs = [i \in Slots |-> InitialGestureState]
    /\ cur = 1
    /\ timers = {}
    /\ gestureTimeoutRef = NoTimer
    /\ loops = <<>>
    /\ activeGesture = "blink"
    /\ isDetectionActive = FALSE
    /\ detectionState = "waiting"
    /\ cands = <<>>
    /\ finals = <<>>
    /\ faceLandmarkerRef = TRUE
    /\ videoHasData = TRUE
    /\ initPhase = "ready"
    /\ fallbackDue = NoTimer
    /\ calibrationMode = FALSE
    /\ calibrationProgress = 0
    /\ calibrationRuns = {}
    /\ progressLog = <<>>
    /\ blinkStateRef = [isBlinking |-> FALSE, blinkStartTime |-> 0]
    /\ blinkCounterRef = 0
    /\ lastBlinkRef = 0
    /\ blinkTimers = {}
    /\ showResponse = Null
    /\ currentQuestionIndex = 0
    /\ userResponsesRef = <<>>
    /\ navigated = FALSE
    /\ responses = <<>>
    /\ frameSeen = TRUE

\* a state object no callback and no ref can reach any more is gone
Collect(heap, current, table) ==
    [i \in Slots |-> IF i = current \/ \E t \in table : t.obj = i
                     THEN heap[i] ELSE InitialGestureState]

\* the slot a newly created state object takes
NewSlot(table) == CHOOSE i \in Slots :
                    /\ \A t \in table : t.obj # i
                    /\ \A j \in 1..(i - 1) : \E t \in table : t.obj = j

\* the record a detector call works on, for the current state object
Machine == [slot |-> cur, st |-> objs[cur], timers |-> timers,
            ref |-> gestureTimeoutRef, cands |-> cands]

\* One pass of detect() that got past the throttle: closure is the loop
\* (the React state its render captured), m the machine, ds detectionState.
detectPass(closure, s, m, ds) ==
    IF s.faceDetected
    THEN {[m |-> m1,
           ds |-> IF closure.detectionState # "detected" THEN "detected" ELSE ds] :
             m1 \in runDetectors(m, s)}
    ELSE {[m |-> m,
           ds |-> IF closure.detectionState # "searching" THEN "searching" ELSE ds]}

\* startGestureDetection as called at the end of a question selection: the
\* handler's render decides whether a loop starts, and detect() is called
\* once synchronously.  m0 is the machine after the reset.
startGestureDetection(m0) ==
    IF ~faceLandmarkerRef \/ ~isDetectionActive
    THEN {[m |-> m0, ds |-> "searching", loops |-> loops]}
    ELSE IF ~videoHasData
    THEN {[m |-> m0, ds |-> "searching",
           loops |-> Append(loops, [lastDetectionTime |-> 0,
                                    isDetectionActive |-> isDetectionActive,
                                    detectionState |-> detectionState])]}
    ELSE LET closure == [lastDetectionTime |-> now,
                         isDetectionActive |-> isDetectionActive,
                         detectionState |-> detectionState]
         IN {[m |-> r.m, ds |-> r.ds, loops |-> Append(loops, closure)] :
                r \in detectPass(closure, video, m0, "searching")}

\* handleQuestionSelect and handleCustomQuestion: clear the hold timer,
\* replace the state object, activate detection, start the loop
resetForQuestion ==
    LET cleared == IF gestureTimeoutRef # NoTimer
                   THEN clearTimeout(timers, gestureTimeoutRef) ELSE timers
        table == {[t EXCEPT !.beforeQuestion = TRUE] : t \in cleared}
    IN /\ resets < MaxResets
       /\ resets' = resets + 1
       /\ LET slot == NewSlot(table)
              m0 == [slot |-> slot, st |-> InitialGestureState, timers |-> table,
                     ref |-> gestureTimeoutRef, cands |-> cands]
          IN \E r \in startGestureDetection(m0) :
             /\ cur' = slot
             /\ timers' = r.m.timers
             /\ objs' = Collect([objs EXCEPT ![slot] = r.m.st], slot, r.m.timers)
             /\ gestureTimeoutRef' = r.m.ref
             /\ cands' = r.m.cands
             /\ detectionState' = r.ds
             /\ loops' = r.loops
       /\ isDetectionActive' = TRUE
       /\ UNCHANGED <<now, video, eyes, activeGesture, finals>>
       /\ UNCHANGED <<initVars, calibrationVars, earlyVars>>

handleQuestionSelect == resetForQuestion

handleCustomQuestion == resetForQuestion

\* gesture-menu-item onClick
selectGesture(g) ==
    LET table == IF g # activeGesture
                 THEN {[t EXCEPT !.beforeGesture = TRUE] : t \in timers}
                 ELSE timers
    IN /\ resets < MaxResets
       /\ resets' = resets + 1
       /\ activeGesture' = g
       /\ cur' = NewSlot(table)
       /\ timers' = table
       /\ objs' = Collect([objs EXCEPT ![NewSlot(table)] = InitialGestureState],
                          NewSlot(table), table)
       /\ UNCHANGED <<now, video, eyes, gestureTimeoutRef, loops,
                      isDetectionActive, detectionState, cands, finals>>
       /\ UNCHANGED <<initVars, calibrationVars, earlyVars>>

\* a requestAnimationFrame callback of loop l that passes the throttle
Frame(l) ==
    /\ l \in 1..Len(loops)
    /\ loops[l].isDetectionActive
    /\ videoHasData
    /\ now - loops[l].lastDetectionTime >= detectionInterval
    /\ \E r \in detectPass(loops[l], video, Machine, detectionState) :
          /\ objs' = [objs EXCEPT ![cur] = r.m.st]
          /\ timers' = r.m.timers
          /\ gestureTimeoutRef' = r.m.ref
          /\ cands' = r.m.cands
          /\ detectionState' = r.ds
    /\ loops' = [loops EXCEPT ![l].lastDetectionTime = now]
    /\ UNCHANGED <<now, video, eyes, resets, cur, activeGesture, isDetectionActive, finals>>
    /\ UNCHANGED <<initVars, calibrationVars, earlyVars>>

\* the deferred single-blink check of detectBlink runs
FireDeferred(t) ==
    /\ t \in timers /\ t.kind = "deferred" /\ t.due <= now
    /\ LET state == objs[t.obj]
           m0 == [Machine EXCEPT !.timers = @ \ {t}]
       IN IF singleBlinkConfirmed(state)
          THEN LET m1 == processGestureResponse(m0, "yes", "blink", t)
               IN /\ objs' = Collect([[objs EXCEPT ![cur] = m1.st]
                                         EXCEPT ![t.obj].blinkHistory = <<>>],
                                     cur, m1.timers)
                  /\ timers' = m1.timers
                  /\ gestureTimeoutRef' = m1.ref
                  /\ cands' = m1.cands
          ELSE /\ timers' = m0.timers
               /\ objs' = Collect(objs, cur, m0.timers)
               /\ UNCHANGED <<gestureTimeoutRef, cands>>
    /\ UNCHANGED <<now, video, eyes, resets, cur, loops, activeGesture, isDetectionActive,
                   detectionState, finals>>
    /\ UNCHANGED <<initVars, calibrationVars, earlyVars>>

\* the value of the latest render instead of the captured one
LatestIsDetectionActive == isDetectionActive

\* isDetectionActive as handleGestureResponse reads it: the value captured by
\* the detect closure that called processGestureResponse, and a loop is only
\* started by a render in which isDetectionActive is true
CapturedIsDetectionActive == TRUE

\* the hold timer of processGestureResponse runs: handleGestureResponse,
\* then the pending responses of the captured state object are cleared
FireGate(t) ==
    /\ t \in timers /\ t.kind = "gate" /\ t.due <= now
    /\ timers' = timers \ {t}
    /\ IF CapturedIsDetectionActive
       THEN /\ finals' = Append(finals,
                            [value |-> t.response, gestureType |-> t.gestureType,
                             held |-> now - (t.due - gateHoldDelay),
                             latest |-> t.due = gestureTimeoutRef,
                             lastSubmit |-> cands[Len(cands)].value,
                             beforeQuestion |-> t.beforeQuestion,
                             beforeGesture |-> t.beforeGesture])
            /\ isDetectionActive' = FALSE
            /\ detectionState' = "waiting"
       ELSE UNCHANGED <<finals, isDetectionActive, detectionState>>
    /\ objs' = Collect([objs EXCEPT ![t.obj].pendingBlinkResponse = Null,
                                    ![t.obj].pendingSmileResponse = Null,
                                    ![t.obj].pendingNodResponse = Null,
                                    ![t.obj].pendingWaveResponse = Null],
                       cur, timers \ {t})
    /\ UNCHANGED <<now, video, eyes, resets, cur, gestureTimeoutRef, loops, activeGesture, cands>>
    /\ UNCHANGED <<initVars, calibrationVars, earlyVars>>

\* The callbacks that are due have run and every loop has consumed the
\* frame of this instant (requestAnimationFrame keeps the loops running).
\* Before the first loop starts nothing is scheduled and nothing reads the
\* clock, so the clock is first advanced from there.
Settled ==
    /\ loops # <<>> \/ DueTimes # {}
    /\ \A d \in DueTimes : d > now
    /\ \A l \in 1..Len(loops) :
          videoHasData => now - loops[l].lastDetectionTime < detectionInterval

\* d milliseconds pass, no scheduled callback is skipped, and the tracker
\* reports s for the video from then on
Tick(d, s) ==
    /\ Settled
    /\ now + d <= MaxTime
    /\ now + d <= NextDue
    /\ now' = now + d
    /\ video' = s
    /\ eyes' = IF EyesShut(s) /\ ~EyesShut(video)
               THEN Append(eyes, [shut |-> now + d, opened |-> 0])
               ELSE IF ~EyesShut(s) /\ EyesShut(video)
               THEN [eyes EXCEPT ![Len(eyes)].opened = now + d]
               ELSE eyes
    /\ Len(eyes') <= MaxBlinks
    /\ UNCHANGED <<resets, objs, cur, timers, gestureTimeoutRef, loops,
                   activeGesture, isDetectionActive, detectionState, cands, finals>>
    /\ UNCHANGED <<initVars, calibrationVars, earlyVars>>

\* time passes until the next scheduled callback is due; the video stays
TickToTimer ==
    /\ Settled
    /\ DueTimes # {}
    /\ NextDue <= MaxTime
    /\ now' = NextDue
    /\ UNCHANGED <<video, eyes, resets, objs, cur, timers, gestureTimeoutRef, loops,
                   activeGesture, isDetectionActive, detectionState, cands, finals>>
    /\ UNCHANGED <<initVars, calibrationVars, earlyVars>>

SwitchTargets == {"blink", "nod"}

Next ==
    \/ handleQuestionSelect
    \/ handleCustomQuestion
    \/ \E g \in SwitchTargets : selectGesture(g)
    \/ \E l \in 1..Len(loops) : Frame(l)
    \/ \E t \in timers : FireDeferred(t)
    \/ \E t \in timers : FireGate(t)
    \/ \E d \in TickSteps, s \in Samples :
          Tick(d, s) /\ now' <= SessionEnd /\ Len(eyes') <= MaxClosures
    \/ TickToTimer /\ now' <= SessionEnd

Spec == Init /\ [][Next]_vars

----------------------------------------------------------------------------
(* SpecBlink: one detection loop and a user who only blinks.  The eyes     *)
(* stay closed for one of BlinkDurations and open for one of BlinkGaps     *)
(* (or until the next callback is due); the face is otherwise at rest.     *)

BlinkDurations == {30, 31, 100, 350}

BlinkGaps == {300, 399, 401}

BlinkTick(d) ==
    /\ d \in (IF EyesShut(video) THEN BlinkDurations ELSE BlinkGaps)
    /\ Tick(d, IF EyesShut(video) THEN Neutral ELSE EyesClosed)

NextBlink ==
    \/ handleQuestionSelect /\ loops = <<>>
    \/ \E l \in 1..Len(loops) : Frame(l)
    \/ \E t \in timers : FireDeferred(t)
    \/ \E t \in timers : FireGate(t)
    \/ \E d \in BlinkDurations \cup BlinkGaps : BlinkTick(d)
    \/ TickToTimer

SpecBlink == Init /\ [][NextBlink]_vars

----------------------------------------------------------------------------
(* SpecSmile: smile is the active gesture, one detection loop, and a user  *)
(* who starts smiling at some time and keeps smiling from then on.         *)

SmileSteps == {400, 600}

SmileTick(d, s) ==
    /\ s \in {Neutral, Smiling}
    /\ video = Smiling => s = Smiling
    /\ Tick(d, s)

NextSmile ==
    \/ selectGesture("smile") /\ activeGesture = "blink" /\ loops = <<>>
    \/ handleQuestionSelect /\ loops = <<>>
    \/ \E l \in 1..Len(loops) : Frame(l)
    \/ \E t \in timers : FireGate(t)
    \/ \E d \in SmileSteps, s \in {Neutral, Smiling} : SmileTick(d, s)
    \/ TickToTimer

SpecSmile == Init /\ [][NextSmile]_vars

----------------------------------------------------------------------------
(* SpecEpisode: smile is the active gesture, one detection loop, and a     *)
(* user who starts and stops smiling at any time.                          *)

NextEpisode ==
    \/ selectGesture("smile") /\ activeGesture = "blink" /\ loops = <<>>
    \/ handleQuestionSelect /\ loops = <<>>
    \/ \E l \in 1..Len(loops) : Frame(l)
    \/ \E t \in timers : FireGate(t)
    \/ \E d \in SmileSteps, s \in {Neutral, Smiling} : Tick(d, s)
    \/ TickToTimer

SpecEpisode == Init /\ [][NextEpisode]_vars

----------------------------------------------------------------------------
(* SpecIdle: one detection loop and a user who blinks at most MaxClosures  *)
(* times and otherwise looks into the camera with the eyes open, for as    *)
(* long as the clock runs.                                                 *)

NextIdle ==
    \/ handleQuestionSelect /\ loops = <<>>
    \/ \E l \in 1..Len(loops) : Frame(l)
    \/ \E t \in timers : FireDeferred(t)
    \/ \E t \in timers : FireGate(t)
    \/ \E d \in TickSteps, s \in Samples : Tick(d, s) /\ Len(eyes') <= MaxClosures
    \/ TickToTimer

SpecIdle == Init /\ [][NextIdle]_vars

----------------------------------------------------------------------------
(* SpecFace: the user smiles and nods; questions are selected and the      *)
(* active gesture is switched between smile and nod at any time.           *)

FaceSteps == {400}

FaceSamples == {Neutral, Smiling, Nodding}

NextFace ==
    \/ handleQuestionSelect
    \/ \E g \in {"smile", "nod"} : selectGesture(g)
    \/ \E l \in 1..Len(loops) : Frame(l)
    \/ \E t \in timers : FireGate(t)
    \/ \E d \in FaceSteps, s \in FaceSamples : Tick(d, s) /\ now' <= FaceEnd
    \/ TickToTimer /\ now' <= FaceEnd

SpecFace == Init /\ [][NextFace]_vars

----------------------------------------------------------------------------
(* SpecError: the component from its mount on.  initializeFaceLandmarker   *)
(* loads the model and calls setupCamera; either may fail.  The user       *)
(* selects questions meanwhile and afterwards; the face is at rest.        *)

fallbackDelay == 1000

\* the state after the first render: nothing is loaded yet
InitLoading ==
    /\ now = StartTime
    /\ video = Neutral
    /\ eyes = <<>>
    /\ resets = 0
    /\ objs = [i \in Slots |-> InitialGestureState]
    /\ cur = 1
    /\ timers = {}
    /\ gestureTimeoutRef = NoTimer
    /\ loops = <<>>
    /\ activeGesture = "blink"
    /\ isDetectionActive = FALSE
    /\ detectionState = "waiting"
    /\ cands = <<>>
    /\ finals = <<>>
    /\ faceLandmarkerRef = FALSE
    /\ videoHasData = FALSE
    /\ initPhase = "model"
    /\ fallbackDue = NoTimer
    /\ calibrationMode = FALSE
    /\ calibrationProgress = 0
    /\ calibrationRuns = {}
    /\ progressLog = <<>>
    /\ blinkStateRef = [isBlinking |-> FALSE, blinkStartTime |-> 0]
    /\ blinkCounterRef = 0
    /\ lastBlinkRef = 0
    /\ blinkTimers = {}
    /\ showResponse = Null
    /\ currentQuestionIndex = 0
    /\ userResponsesRef = <<>>
    /\ navigated = FALSE
    /\ responses = <<>>
    /\ frameSeen = TRUE

\* what an initialisation step leaves alone
InitStepUnchanged ==
    /\ UNCHANGED <<now, video, eyes, resets, objs, cur, timers, gestureTimeoutRef, loops,
                   activeGesture, isDetectionActive, cands, finals>>
    /\ UNCHANGED <<calibrationVars, earlyVars>>

\* initializeFaceLandmarker: createFromOptions resolves, setupCamera is called
landmarkerLoaded ==
    /\ initPhase = "model"
    /\ faceLandmarkerRef' = TRUE
    /\ initPhase' = "camera"
    /\ UNCHANGED <<videoHasData, fallbackDue, detectionState>>
    /\ InitStepUnchanged

\* initializeFaceLandmarker: the catch branch
landmarkerFailed ==
    /\ initPhase = "model"
    /\ detectionState' = "error"
    /\ initPhase' = "failed"
    /\ UNCHANGED <<faceLandmarkerRef, videoHasData, fallbackDue>>
    /\ InitStepUnchanged

\* setupCamera: getUserMedia resolves, the stream is attached and the
\* fallback timeout is scheduled
cameraStarted ==
    /\ initPhase = "camera"
    /\ initPhase' = "stream"
    /\ fallbackDue' = now + fallbackDelay
    /\ UNCHANGED <<faceLandmarkerRef, videoHasData, detectionState>>
    /\ InitStepUnchanged

\* setupCamera: the catch branch (getUserMedia rejects)
cameraDenied ==
    /\ initPhase = "camera"
    /\ detectionState' = "error"
    /\ initPhase' = "failed"
    /\ UNCHANGED <<faceLandmarkerRef, videoHasData, fallbackDue>>
    /\ InitStepUnchanged

\* the video element, with the stream attached, reaches HAVE_ENOUGH_DATA:
\* the browser decides when, before or after play() settles
videoDataReady ==
    /\ initPhase \in {"stream", "ready", "unplayed"}
    /\ ~videoHasData
    /\ videoHasData' = TRUE
    /\ UNCHANGED <<faceLandmarkerRef, initPhase, fallbackDue, detectionState>>
    /\ InitStepUnchanged

\* onloadeddata: play() resolves
videoPlaying ==
    /\ initPhase = "stream"
    /\ detectionState' = "waiting"
    /\ initPhase' = "ready"
    /\ UNCHANGED <<faceLandmarkerRef, videoHasData, fallbackDue>>
    /\ InitStepUnchanged

\* onloadeddata: play() rejects
playFailed ==
    /\ initPhase = "stream"
    /\ detectionState' = "error"
    /\ initPhase' = "unplayed"
    /\ UNCHANGED <<faceLandmarkerRef, videoHasData, fallbackDue>>
    /\ InitStepUnchanged

\* the fallback timeout of setupCamera runs; isLoading is the value of the
\* first render, which is true
fallbackFires ==
    /\ fallbackDue # NoTimer /\ fallbackDue <= now
    /\ fallbackDue' = NoTimer
    /\ detectionState' = "waiting"
    /\ UNCHANGED <<faceLandmarkerRef, videoHasData, initPhase>>
    /\ InitStepUnchanged

NextError ==
    \/ landmarkerLoaded
    \/ landmarkerFailed
    \/ cameraStarted
    \/ cameraDenied
    \/ videoDataReady
    \/ videoPlaying
    \/ playFailed
    \/ fallbackFires
    \/ handleQuestionSelect
    \/ \E l \in 1..Len(loops) : Frame(l)
    \/ \E d \in TickSteps : Tick(d, Neutral) /\ now' <= SessionEnd
    \/ TickToTimer /\ now' <= SessionEnd

SpecError == InitLoading /\ [][NextError]_vars

----------------------------------------------------------------------------
(* SpecCalibration: the user presses the calibrate button, possibly again  *)
(* while an earlier run is still going.  A run is the async function       *)
(* calibrateGesture suspended in its 500 ms delay: i is its loop variable  *)
(* and due the time its setTimeout resolves.                               *)

MaxCalibrations == 2

calibrationStepDelay == 500
calibrationEnd == 100

\* the calls of calibrateGesture made so far
StartedRuns == {progressLog[k].run : k \in 1..Len(progressLog)}

\* the loop variable advancing by two steps at once
SkipProgress(i) == i + 40

\* i += 20
nextProgress(i) == i + 20

\* the calibrate button also discarding the baselines and the pending
\* responses of the gesture state
RecalibratingGesture ==
    LET id == Cardinality(StartedRuns) + 1
    IN /\ id <= MaxCalibrations
       /\ calibrationMode' = TRUE
       /\ calibrationProgress' = 0
       /\ progressLog' = Append(progressLog, [run |-> id, value |-> 0, at |-> now])
       /\ calibrationRuns' = calibrationRuns \cup
              {[run |-> id, i |-> 0, due |-> now + calibrationStepDelay]}
       /\ objs' = [objs EXCEPT ![cur].neutralMouthWidth = NoLength,
                               ![cur].neutralHeadPitch = 0,
                               ![cur].pendingBlinkResponse = Null]
       /\ UNCHANGED <<now, video, eyes, resets, cur, timers, gestureTimeoutRef,
                      loops, activeGesture, isDetectionActive, detectionState,
                      cands, finals>>
       /\ UNCHANGED <<initVars, earlyVars>>

\* the calibrate button: the code up to the first await
calibrateGesture ==
    LET id == Cardinality(StartedRuns) + 1
    IN /\ id <= MaxCalibrations
       /\ calibrationMode' = TRUE
       /\ calibrationProgress' = 0
       /\ progressLog' = Append(progressLog, [run |-> id, value |-> 0, at |-> now])
       /\ calibrationRuns' = calibrationRuns \cup
              {[run |-> id, i |-> 0, due |-> now + calibrationStepDelay]}
       /\ UNCHANGED <<now, video, eyes, resets, objs, cur, timers, gestureTimeoutRef,
                      loops, activeGesture, isDetectionActive, detectionState,
                      cands, finals>>
       /\ UNCHANGED <<initVars, earlyVars>>

\* the delay of run r resolves: the next iteration of the loop, or the
\* code after the loop
calibrationStep(r) ==
    /\ r \in calibrationRuns /\ r.due <= now
    /\ LET i == nextProgress(r.i)
       IN IF i <= calibrationEnd
          THEN /\ calibrationProgress' = i
               /\ progressLog' = Append(progressLog,
                                        [run |-> r.run, value |-> i, at |-> now])
               /\ calibrationRuns' = (calibrationRuns \ {r}) \cup
                      {[run |-> r.run, i |-> i, due |-> now + calibrationStepDelay]}
               /\ UNCHANGED calibrationMode
          ELSE /\ calibrationMode' = FALSE
               /\ calibrationRuns' = calibrationRuns \ {r}
               /\ UNCHANGED <<calibrationProgress, progressLog>>
    /\ UNCHANGED <<now, video, eyes, resets, objs, cur, timers, gestureTimeoutRef,
                   loops, activeGesture, isDetectionActive, detectionState,
                   cands, finals>>
    /\ UNCHANGED <<initVars, earlyVars>>

NextCalibration ==
    \/ calibrateGesture
    \/ \E r \in calibrationRuns : calibrationStep(r)
    \/ \E d \in TickSteps : Tick(d, Neutral)
    \/ TickToTimer

SpecCalibration == Init /\ [][NextCalibration]_vars

----------------------------------------------------------------------------
(* SpecEarly: the early component BlinkDetection.  Its detect callback     *)
(* runs on every animation frame, without a throttle, from the closures    *)
(* of the first render; the user only blinks.                              *)

EarlyBlinkThreshold == 50
earlyDoubleWindow == 450
earlyConfirmDelay == 460
earlyResponseDelay == 1000
questionsLength == 3

\* currentQuestionIndex as moveToNextQuestion reads it: the value of the
\* first render, whose closures the detect loop keeps calling
CapturedQuestionIndex == 0

EarlyDurations == {100}

EarlyGaps == {50, 300, 349, 350, 360}

EarlyDueTimes == {t.due : t \in blinkTimers}

EarlyUnchanged ==
    /\ UNCHANGED <<resets, objs, cur, timers, gestureTimeoutRef, loops, activeGesture,
                   isDetectionActive, detectionState, cands, finals>>
    /\ UNCHANGED <<initVars, calibrationVars>>

\* setShowResponse(answer) and the setTimeout that will move on
showAndSchedule(answer, table) ==
    /\ showResponse' = answer
    /\ responses' = Append(responses, answer)
    /\ blinkTimers' = table \cup
          {[kind |-> "response", due |-> now + earlyResponseDelay,
            answer |-> answer, currentTime |-> now]}

handleSingleBlinkResponse(table) == showAndSchedule("yes", table)

handleDoubleBlinkResponse(table) == showAndSchedule("no", table)

\* the check of the confirmation timer passing whatever happened meanwhile
EarlyAlwaysConfirmed(counter, elapsed) == TRUE

\* blinkCounterRef.current === 1 && Date.now() - currentTime >= 450
earlySingleConfirmed(counter, elapsed) ==
    counter = 1 /\ elapsed >= earlyDoubleWindow

\* timeSinceLastBlink < 450 && blinkCounterRef.current === 1
earlyIsDoubleBlink(timeSinceLastBlink, counter) ==
    timeSinceLastBlink < earlyDoubleWindow /\ counter = 1

\* detect of startBlinkDetection on the frame of this instant
EarlyFrame ==
    /\ ~frameSeen
    /\ frameSeen' = TRUE
    /\ LET avgBlink2 == ScoreOrZero(video.eyeBlinkLeft) + ScoreOrZero(video.eyeBlinkRight)
       IN IF video.faceDetected /\ avgBlink2 > 2 * EarlyBlinkThreshold
             /\ ~blinkStateRef.isBlinking
          THEN /\ blinkStateRef' = [isBlinking |-> TRUE, blinkStartTime |-> now]
               /\ UNCHANGED <<blinkCounterRef, lastBlinkRef, blinkTimers,
                              showResponse, responses>>
          ELSE IF video.faceDetected /\ avgBlink2 < 2 * EarlyBlinkThreshold
                  /\ blinkStateRef.isBlinking
          THEN /\ blinkStateRef' = [blinkStateRef EXCEPT !.isBlinking = FALSE]
               /\ IF earlyIsDoubleBlink(now - lastBlinkRef, blinkCounterRef)
                  THEN /\ blinkCounterRef' = 0
                       /\ lastBlinkRef' = 0
                       /\ handleDoubleBlinkResponse(blinkTimers)
                  ELSE /\ blinkCounterRef' = 1
                       /\ lastBlinkRef' = now
                       /\ blinkTimers' = blinkTimers \cup
                             {[kind |-> "single", due |-> now + earlyConfirmDelay,
                               answer |-> "yes", currentTime |-> now]}
                       /\ UNCHANGED <<showResponse, responses>>
          ELSE UNCHANGED <<blinkStateRef, blinkCounterRef, lastBlinkRef, blinkTimers,
                           showResponse, responses>>
    /\ UNCHANGED <<now, video, eyes, currentQuestionIndex, userResponsesRef, navigated>>
    /\ EarlyUnchanged

\* the confirmation setTimeout of a falling edge runs
EarlySingleTimer(t) ==
    /\ t \in blinkTimers /\ t.kind = "single" /\ t.due <= now
    /\ IF earlySingleConfirmed(blinkCounterRef, now - t.currentTime)
       THEN /\ blinkCounterRef' = 0
            /\ lastBlinkRef' = 0
            /\ handleSingleBlinkResponse(blinkTimers \ {t})
       ELSE /\ blinkTimers' = blinkTimers \ {t}
            /\ UNCHANGED <<blinkCounterRef, lastBlinkRef, showResponse, responses>>
    /\ UNCHANGED <<now, video, eyes, blinkStateRef, currentQuestionIndex,
                   userResponsesRef, navigated, frameSeen>>
    /\ EarlyUnchanged

\* the setTimeout of a response handler runs: setShowResponse(null) and
\* moveToNextQuestion(answer)
EarlyResponseTimer(t) ==
    /\ t \in blinkTimers /\ t.kind = "response" /\ t.due <= now
    /\ blinkTimers' = blinkTimers \ {t}
    /\ showResponse' = Null
    /\ userResponsesRef' =
          [i \in DOMAIN userResponsesRef \cup {CapturedQuestionIndex} |->
              IF i = CapturedQuestionIndex THEN t.answer ELSE userResponsesRef[i]]
    /\ IF CapturedQuestionIndex >= questionsLength - 1
       THEN navigated' = TRUE /\ UNCHANGED currentQuestionIndex
       ELSE currentQuestionIndex' = currentQuestionIndex + 1 /\ UNCHANGED navigated
    /\ UNCHANGED <<now, video, eyes, blinkStateRef, blinkCounterRef, lastBlinkRef,
                   responses, frameSeen>>
    /\ EarlyUnchanged

\* the Home button: onClick={() => navigate('/')}
homeButton ==
    /\ navigated' = TRUE
    /\ UNCHANGED <<now, video, eyes, blinkStateRef, blinkCounterRef, lastBlinkRef,
                   blinkTimers, showResponse, currentQuestionIndex, userResponsesRef,
                   responses, frameSeen>>
    /\ EarlyUnchanged

\* the frame of this instant has been processed and every callback that
\* is due has run
EarlySettled == frameSeen /\ \A d \in EarlyDueTimes : d > now

\* the eyes stay as they are for d milliseconds and then shut or open
EarlyTick(d) ==
    /\ EarlySettled
    /\ d \in (IF EyesShut(video) THEN EarlyDurations ELSE EarlyGaps)
    /\ now + d <= MaxTime
    /\ \A e \in EarlyDueTimes : now + d <= e
    /\ now' = now + d
    /\ video' = IF EyesShut(video) THEN Neutral ELSE EyesClosed
    /\ eyes' = IF EyesShut(video)
               THEN [eyes EXCEPT ![Len(eyes)].opened = now + d]
               ELSE Append(eyes, [shut |-> now + d, opened |-> 0])
    /\ Len(eyes') <= MaxBlinks
    /\ frameSeen' = FALSE
    /\ UNCHANGED <<blinkStateRef, blinkCounterRef, lastBlinkRef, blinkTimers, showResponse,
                   currentQuestionIndex, userResponsesRef, navigated, responses>>
    /\ EarlyUnchanged

\* time passes until the next setTimeout is due; the eyes stay as they are
TickToEarlyTimer ==
    /\ EarlySettled
    /\ EarlyDueTimes # {}
    /\ \E d \in EarlyDueTimes :
          /\ \A e \in EarlyDueTimes : d <= e
          /\ d <= MaxTime
          /\ now' = d
    /\ frameSeen' = FALSE
    /\ UNCHANGED <<video, eyes, blinkStateRef, blinkCounterRef, lastBlinkRef, blinkTimers,
                   showResponse, currentQuestionIndex, userResponsesRef, navigated,
                   responses>>
    /\ EarlyUnchanged

NextEarly ==
    \/ EarlyFrame
    \/ \E t \in blinkTimers : EarlySingleTimer(t)
    \/ \E t \in blinkTimers : EarlyResponseTimer(t)
    \/ homeButton
    \/ \E d \in EarlyDurations \cup EarlyGaps : EarlyTick(d)
    \/ TickToEarlyTimer

SpecEarly == Init /\ [][NextEarly]_vars

----------------------------------------------------------------------------
(* SpecNod: nod is the active gesture, one detection loop, and a user who  *)
(* moves the head up and down: the distance between nose tip and forehead  *)
(* is at rest (100), in the band below the threshold (108, 115, 120) or    *)
(* above it (130).                                                         *)

NodEnd == 3400

NodPitches == {100, 108, 115, 120, 130}

NodSteps == {300, 301}

NextNod ==
    \/ selectGesture("nod") /\ loops = <<>> /\ resets = 0
    \/ handleQuestionSelect /\ loops = <<>>
    \/ \E l \in 1..Len(loops) : Frame(l)
    \/ \E t \in timers : FireGate(t)
    \/ \E d \in NodSteps, p \in NodPitches : Tick(d, NodPitch(p)) /\ now' <= NodEnd
    \/ TickToTimer /\ now' <= NodEnd

SpecNod == Init /\ [][NextNod]_vars

----------------------------------------------------------------------------
(* SpecWave: handWave is the active gesture, one detection loop consuming  *)
(* a frame every 40 ms, and a face that stays where it is except at the    *)
(* instants of WaveMoveTimes, where it may jump to another position.       *)

WaveEnd == 2700

WavePositions == {500, 530, 570}

WaveSteps == {40}

\* milliseconds after StartTime at which the face may move
WaveMoveOffsets == {120, 200, 240, 400, 800, 840}

WaveMoveTimes == {StartTime + o : o \in WaveMoveOffsets}

WaveTick(d, c) ==
    /\ c # (video.faceLeft.x + video.faceRight.x) \div 2 => now + d \in WaveMoveTimes
    /\ Tick(d, FaceAt(c))
    /\ now' <= WaveEnd

NextWave ==
    \/ selectGesture("handWave") /\ loops = <<>> /\ resets = 0
    \/ handleQuestionSelect /\ loops = <<>>
    \/ \E l \in 1..Len(loops) : Frame(l)
    \/ \E t \in timers : FireGate(t)
    \/ \E d \in WaveSteps, c \in WavePositions : WaveTick(d, c)
    \/ TickToTimer /\ now' <= WaveEnd

SpecWave == Init /\ [][NextWave]_vars

----------------------------------------------------------------------------
(* SpecCalibrating: the calibrate button is pressed once while the         *)
(* detection loop runs, and the user blinks up to CalibratingBlinks times. *)

CalibratingBlinks == 1

NextCalibrating ==
    \/ handleQuestionSelect /\ loops = <<>>
    \/ \E l \in 1..Len(loops) : Frame(l)
    \/ \E t \in timers : FireDeferred(t)
    \/ \E t \in timers : FireGate(t)
    \/ calibrateGesture /\ loops # <<>> /\ StartedRuns = {}
    \/ \E r \in calibrationRuns : calibrationStep(r)
    \/ \E d \in TickSteps, s \in Samples :
          Tick(d, s) /\ Len(eyes') <= CalibratingBlinks
    \/ TickToTimer

SpecCalibrating == Init /\ [][NextCalibrating]_vars

----------------------------------------------------------------------------
(* SpecFrames: one detection loop and a video in which the user blinks,    *)
(* leaves the picture, or is tracked without blink categories and          *)
(* landmarks.                                                              *)

FrameSamples == {Neutral, EyesClosed, NoFace, Malformed}

NextFrames ==
    \/ handleQuestionSelect /\ loops = <<>>
    \/ \E l \in 1..Len(loops) : Frame(l)
    \/ \E t \in timers : FireDeferred(t)
    \/ \E t \in timers : FireGate(t)
    \/ \E d \in TickSteps, s \in FrameSamples :
          Tick(d, s) /\ now' <= SessionEnd /\ Len(eyes') <= MaxClosures
    \/ TickToTimer /\ now' <= SessionEnd

SpecFrames == Init /\ [][NextFrames]_vars

----------------------------------------------------------------------------
(* Properties *)

\* every callback that is due has run
Quiet == \A t \in timers : t.due > now

\* a step in which a running loop consumes a frame
FrameStep == Len(loops') = Len(loops) /\ loops' # loops

\* the part of a gesture state object that belongs to detector g
DetectorState(st, g) ==
    CASE g = "blink" -> <<st.isBlinking, st.blinkStartTime, st.blinkCounter,
                          st.lastBlinkTime, st.blinkHistory, st.pendingBlinkResponse>>
      [] g = "smile" -> <<st.smileStartTime, st.smileDetected, st.neutralMouthWidth,
                          st.isSmiling, st.pendingSmileResponse>>
      [] g = "nod" -> <<st.nodStartTime, st.nodDetected, st.headPitch,
                        st.neutralHeadPitch, st.nodCount, st.lastNodTime,
                        st.isNodding, st.pendingNodResponse>>
      [] g = "handWave" -> <<st.waveStartTime, st.waveDetected,
                             st.handPositionHistory, st.waveCount, st.lastWaveTime,
                             st.isWaving, st.pendingWaveResponse>>

\* C1: at most one hold timer is outstanding, it is the one gestureTimeoutRef
\* names and it carries the value of the last submit; every FinalSignal came
\* from the timer that was not superseded and has the value of the last
\* submit made before it fired.
C1_SinglePendingLastWriteWins ==
    /\ Cardinality(GateTimers) <= 1
    /\ \A t \in GateTimers : /\ t.due = gestureTimeoutRef
                              /\ t.response = cands[Len(cands)].value
    /\ \A i \in 1..Len(finals) : /\ finals[i].latest
                                  /\ finals[i].value = finals[i].lastSubmit

\* a 'yes' was submitted, a 'no' was submitted during its hold window, and
\* the only FinalSignal delivered is the 'no'
C1_Superseded ==
    /\ Len(cands) = 2 /\ cands[1].value = "yes" /\ cands[2].value = "no"
    /\ Len(finals) = 1 /\ finals[1].value = "no"
    /\ GateTimers = {}

\* C2: a blink candidate that was pending in the gate when the active
\* gesture was changed is never delivered as a FinalSignal.
C2_SwitchCancelsPendingBlink ==
    \A i \in 1..Len(finals) :
        ~(finals[i].gestureType = "blink" /\ finals[i].beforeGesture)

\* C3: no RawCandidate is submitted and no FinalSignal is delivered that
\* comes from frames consumed before a later question selection.
C3_ResetDiscardsEarlierFrames ==
    /\ \A i \in 1..Len(cands) : ~cands[i].beforeQuestion
    /\ \A i \in 1..Len(finals) : ~finals[i].beforeQuestion

\* C4: a frame consumed by the loop leaves the state of the detectors of
\* the gestures that are not active unchanged, and a RawCandidate submitted
\* on that frame has the active gesture as its gestureType.
C4_ExactlyOneActiveDetector ==
    [][FrameStep =>
         /\ \A g \in GestureTypes \ {activeGesture} :
                DetectorState(objs'[cur], g) = DetectorState(objs[cur], g)
         /\ Len(cands') > Len(cands)
              => cands'[Len(cands')].gestureType = activeGesture]_vars

\* how long closure i of the video lasted, once the eyes have opened again
BlinkDuration(i) == eyes[i].opened - eyes[i].shut

\* closure i lasted longer than minDuration and shorter than maxDuration
Genuine(i) ==
    /\ eyes[i].opened > 0
    /\ minDuration < BlinkDuration(i) /\ BlinkDuration(i) < maxDuration

\* the loop has consumed the frame in which the eyes opened after closure i
Seen(i) ==
    /\ eyes[i].opened > 0
    /\ \/ now > eyes[i].opened
       \/ \A l \in 1..Len(loops) : loops[l].lastDetectionTime = now

YesFinals == {i \in 1..Len(finals) : finals[i].value = "yes"}
NoFinals == {i \in 1..Len(finals) : finals[i].value = "no"}
YesCands == {i \in 1..Len(cands) : cands[i].value = "yes"}
NoCands == {i \in 1..Len(cands) : cands[i].value = "no"}

\* the eyes closed once, for 100 ms, and have not closed again
SingleCleanBlink ==
    Len(eyes) = 1 /\ eyes[1].opened > 0 /\ BlinkDuration(1) = 100

\* C5: after a single blink of 100 ms and no further blink, no FinalSignal
\* 'no' is delivered, at most one FinalSignal 'yes' is delivered, and once
\* the deferred check and the hold timer have run (no callback is left, or
\* confirmationDelay plus the hold delay have passed since the eyes opened)
\* exactly one FinalSignal 'yes' of gesture blink has been delivered.
C5_SingleCleanBlink ==
    (SingleCleanBlink /\ Seen(1)) =>
        /\ NoFinals = {}
        /\ Cardinality(YesFinals) <= 1
        /\ \/ timers = {}
           \/ now >= eyes[1].opened + confirmationDelay + gateHoldDelay /\ Quiet
           => /\ Len(finals) = 1
              /\ finals[1].value = "yes" /\ finals[1].gestureType = "blink"

\* the single blink of 100 ms has been answered by its FinalSignal
C5_Answered ==
    /\ SingleCleanBlink
    /\ Len(finals) = 1 /\ finals[1].value = "yes"
    /\ timers = {}

\* two genuine blinks, the second starting 300 ms after the first ended
DoubleBlink ==
    /\ Len(eyes) = 2 /\ Genuine(1) /\ Genuine(2)
    /\ eyes[2].shut - eyes[1].opened = 300

\* C6: when a second genuine blink starts 300 ms after the first ended, no
\* 'yes' candidate is submitted and no FinalSignal 'yes' is delivered, also
\* after the deferred check of the first blink has run; at most one
\* FinalSignal is delivered, and once the hold timer has run (no callback is
\* left, or the hold delay has passed since the second blink ended) exactly
\* one FinalSignal 'no' of gesture blink has been delivered.
C6_DoubleBlinkIsNo ==
    (DoubleBlink /\ Seen(2)) =>
        /\ YesCands = {} /\ YesFinals = {}
        /\ Len(finals) <= 1
        /\ \/ timers = {}
           \/ now >= eyes[2].opened + gateHoldDelay /\ Quiet
           => /\ Len(finals) = 1
              /\ finals[1].value = "no" /\ finals[1].gestureType = "blink"

\* the double blink has been answered and the deferred check of its first
\* blink has run
C6_Answered ==
    /\ DoubleBlink
    /\ now >= eyes[1].opened + confirmationDelay
    /\ Len(finals) = 1 /\ finals[1].value = "no"
    /\ timers = {}

\* C7: a smile that is kept up submits the 'yes' candidate of gesture smile
\* once and is answered by one FinalSignal 'yes' of gesture smile, however
\* long frames above the threshold keep arriving.
C7_SustainedSmileFiresOnce ==
    /\ Cardinality({i \in YesCands : cands[i].gestureType = "smile"}) <= 1
    /\ Cardinality({i \in YesFinals : finals[i].gestureType = "smile"}) <= 1

\* the step is the frame on which the loop sees the eyes open again
FallingEdge ==
    /\ FrameStep
    /\ objs[cur].isBlinking /\ ~objs'[cur].isBlinking

\* the blink that ended was appended to blinkHistory: it is the last entry,
\* or it completed a double blink, which submits 'no' and empties the history
Counted ==
    LET after == objs'[cur].blinkHistory
    IN \/ after # <<>> /\ after[Len(after)] = now
       \/ /\ after = <<>>
          /\ Len(cands') = Len(cands) + 1
          /\ cands'[Len(cands')].value = "no"

\* C8: on a falling edge the blink is appended to blinkHistory iff
\* minDuration < now - blinkStartTime < maxDuration; a blink of exactly
\* minDuration or exactly maxDuration leaves the history, the candidates
\* and the timers as they were, one of minDuration + 1 is counted.
C8_DurationBoundary ==
    [][FallingEdge =>
         LET blinkDuration == now - objs[cur].blinkStartTime
         IN IF minDuration < blinkDuration /\ blinkDuration < maxDuration
            THEN Counted
            ELSE /\ objs'[cur].blinkHistory = objs[cur].blinkHistory
                 /\ cands' = cands
                 /\ timers' = timers]_vars

\* blinks of minDuration, minDuration + 1 and maxDuration have been seen and
\* only the second one is in the history
C8_BoundaryBlinks ==
    /\ Len(eyes) = 3 /\ Seen(3)
    /\ BlinkDuration(1) = minDuration
    /\ BlinkDuration(2) = minDuration + 1
    /\ BlinkDuration(3) = maxDuration
    /\ objs[cur].blinkHistory = <<eyes[2].opened>>

\* two genuine blinks, and only these, whose falling edges are gap apart
TwoBlinksApart(gap) ==
    /\ Len(eyes) = 2 /\ Genuine(1) /\ Genuine(2)
    /\ eyes[2].opened - eyes[1].opened = gap

\* C9: two genuine blinks whose falling edges are doubleBlinkWindow - 1 ms
\* apart have produced exactly one RawCandidate, a 'no' of gesture blink,
\* and blinkHistory is empty.
C9_InsideWindow ==
    (TwoBlinksApart(doubleBlinkWindow - 1) /\ Seen(2)) =>
        /\ Len(cands) = 1
        /\ cands[1].value = "no" /\ cands[1].gestureType = "blink"
        /\ objs[cur].blinkHistory = <<>>

\* the second of two blinks 499 ms apart has been seen and 'no' submitted
C9_Submitted ==
    /\ TwoBlinksApart(doubleBlinkWindow - 1) /\ Seen(2)
    /\ NoCands # {}

\* C10: of two genuine blinks whose falling edges are doubleBlinkWindow + 1
\* ms apart the second has a deferred single-blink check of its own, due
\* confirmationDelay after its falling edge, and once all callbacks have
\* run the blinks have produced a candidate.
C10_OutsideWindow ==
    (TwoBlinksApart(doubleBlinkWindow + 1) /\ Seen(2)) =>
        /\ now < eyes[2].opened + confirmationDelay
             => \E t \in DeferredTimers :
                    t.due = eyes[2].opened + confirmationDelay
        /\ (now >= eyes[2].opened + confirmationDelay /\ Quiet)
             => cands # <<>>

\* the candidates submitted in the step
NewCands == {cands'[i] : i \in (Len(cands) + 1)..Len(cands')}

\* C11: a detector call never reassigns a smile or nod baseline that is
\* non-zero; the first frame with the landmarks after activation or reset
\* sets the baseline to the measured distance and the detector submits no
\* candidate on it (also when that frame is consumed by the question
\* selection itself).
C11_BaselineCapturedOnce ==
    [][LET before == objs[cur]
           after == objs'[cur']
           mouthWidth == calculateDistance(video.mouthLeft, video.mouthRight)
           verticalDistance == Abs(video.noseTip.y - video.forehead.y)
       IN /\ resets' = resets =>
               /\ before.neutralMouthWidth # NoLength
                    => after.neutralMouthWidth = before.neutralMouthWidth
               /\ before.neutralHeadPitch # 0
                    => after.neutralHeadPitch = before.neutralHeadPitch
          /\ (FrameStep /\ video.faceDetected /\ before.neutralMouthWidth = NoLength) =>
               /\ after.neutralMouthWidth = mouthWidth
               /\ \A c \in NewCands : c.gestureType # "smile"
          /\ (FrameStep /\ video.faceDetected /\ before.neutralHeadPitch = 0) =>
               /\ after.neutralHeadPitch = verticalDistance
               /\ \A c \in NewCands : c.gestureType # "nod"
          /\ resets' # resets =>
               /\ after.neutralMouthWidth \in {NoLength, mouthWidth}
               /\ after.neutralHeadPitch \in {0, verticalDistance}
               /\ NewCands = {}]_vars

\* the baselines taken at rest are still there after a smile and during a nod
C11_BaselinesKept ==
    /\ objs[cur].neutralMouthWidth = [squared |-> 40 * 40]
    /\ objs[cur].smileStartTime > 0
    /\ objs[cur].neutralHeadPitch = 100 /\ objs[cur].isNodding

\* all four pending responses of a gesture state object are null
NothingPending(st) ==
    /\ st.pendingBlinkResponse = Null /\ st.pendingSmileResponse = Null
    /\ st.pendingNodResponse = Null /\ st.pendingWaveResponse = Null

\* the gesture state a reset leaves: the initial one, or the initial one
\* after the frame the question selection consumes itself
ResetStates ==
    {InitialGestureState} \cup
    {m.st : m \in runDetectors([slot |-> cur', st |-> InitialGestureState,
                                timers |-> {}, ref |-> NoTimer, cands |-> <<>>],
                               video)}

\* C12: a question selection or gesture switch, from any state, leaves the
\* same engine state: baselines zero, counters zero, histories empty, all
\* pending responses null and no hold timer outstanding; doing it twice in a
\* row therefore gives what doing it once gives.
C12_ResetIdempotent ==
    [][resets' # resets =>
         /\ objs'[cur'] \in ResetStates
         /\ NothingPending(objs'[cur'])
         /\ GateTimers' = {}]_vars

\* C13: a frame without a face sets the status to 'searching', calls no
\* detector and leaves the gesture state, the candidates and the timers as
\* they were; a frame with a face sets the status to 'detected'.
C13_NoFaceFramesInert ==
    [][FrameStep =>
         IF video.faceDetected
         THEN detectionState' = "detected"
         ELSE /\ detectionState' = "searching"
              /\ objs' = objs /\ cands' = cands /\ timers' = timers]_vars

\* C14: a frame that lacks the blink categories leaves the blink detector's
\* state and the timers unchanged and submits no blink candidate; a frame
\* that lacks the landmarks of the smile, nod or wave detector leaves that
\* detector's state unchanged and submits no candidate of that gesture.
C14_MalformedFramesSkipped ==
    [][(FrameStep /\ video.faceDetected) =>
         /\ (video.eyeBlinkLeft = NoScore /\ video.eyeBlinkRight = NoScore) =>
              /\ DetectorState(objs'[cur], "blink") = DetectorState(objs[cur], "blink")
              /\ \A c \in NewCands : c.gestureType # "blink"
              /\ DeferredTimers' = DeferredTimers
         /\ (video.mouthLeft = Missing \/ video.mouthRight = Missing) =>
              /\ DetectorState(objs'[cur], "smile") = DetectorState(objs[cur], "smile")
              /\ \A c \in NewCands : c.gestureType # "smile"
         /\ (video.noseTip = Missing \/ video.forehead = Missing) =>
              /\ DetectorState(objs'[cur], "nod") = DetectorState(objs[cur], "nod")
              /\ \A c \in NewCands : c.gestureType # "nod"
         /\ (video.faceLeft = Missing \/ video.faceRight = Missing) =>
              /\ DetectorState(objs'[cur], "handWave")
                   = DetectorState(objs[cur], "handWave")
              /\ \A c \in NewCands : c.gestureType # "handWave"]_vars

\* C19: no candidate is submitted on a step taken while no face is tracked:
\* the time without a face counts towards neither the confirmation delay of
\* a blink nor any other face-dependent duration.
C19_NoCandidateWithoutFace ==
    [][NewCands # {} => video.faceDetected]_vars

\* C16: a hold timer never stays outstanding past the instant it is due,
\* gateHoldDelay after its submit; when it goes away without a newer submit
\* superseding it and without a reset, exactly one FinalSignal with its
\* value is delivered, held for gateHoldDelay, and the pending responses
\* are cleared; a FinalSignal is delivered in no other way.
C16_FinalizedOnceAfterHold ==
    [][/\ \A t \in GateTimers : now <= t.due
       /\ \A t \in GateTimers \ GateTimers' :
             (cands' = cands /\ resets' = resets) =>
                 /\ Len(finals') = Len(finals) + 1
                 /\ finals'[Len(finals')].value = t.response
                 /\ finals'[Len(finals')].held = gateHoldDelay
                 /\ NothingPending(objs'[cur'])
       /\ finals' # finals =>
             /\ Cardinality(GateTimers \ GateTimers') = 1
             /\ cands' = cands]_vars

\* two candidates, each held for gateHoldDelay and each finalized
C16_TwoFinalized ==
    /\ Len(cands) = 2 /\ Len(finals) = 2
    /\ finals[1].held = gateHoldDelay /\ finals[2].held = gateHoldDelay
    /\ GateTimers = {} /\ NothingPending(objs[cur])

\* C15: while the status is 'error' no step takes it away from 'error', no
\* frame is consumed and no candidate is submitted.
C15_ErrorIsSticky ==
    [][detectionState = "error" =>
         /\ detectionState' = "error"
         /\ ~FrameStep
         /\ cands' = cands]_vars

\* C17: while calibrateGesture has been called once, the progress values
\* published are 0, 20, 40, ... in that order, the k-th one
\* calibrationStepDelay after the one before; as long as the run is going
\* calibrationMode is true and the run waits in the delay after the value
\* published last; when it is over all six values up to 100 have been
\* published, the last delay has passed, calibrationMode is false and the
\* progress is 100.
C17_CalibrationRun ==
    StartedRuns = {1} =>
        LET n == Len(progressLog)
            start == progressLog[1].at
        IN /\ n <= 6
           /\ \A k \in 1..n :
                 /\ progressLog[k].value = 20 * (k - 1)
                 /\ progressLog[k].at = start + calibrationStepDelay * (k - 1)
           /\ calibrationProgress = progressLog[n].value
           /\ IF calibrationRuns # {}
              THEN /\ calibrationMode
                   /\ \A r \in calibrationRuns :
                         /\ r.due = progressLog[n].at + calibrationStepDelay
                         /\ now <= r.due
              ELSE /\ n = 6
                   /\ calibrationProgress = 100
                   /\ ~calibrationMode
                   /\ now >= start + 6 * calibrationStepDelay

\* one call of calibrateGesture has run to its end
C17_RunFinished ==
    /\ StartedRuns = {1} /\ calibrationRuns = {}
    /\ Len(progressLog) = 6 /\ calibrationProgress = 100 /\ ~calibrationMode

\* C18: calibrationMode is true as long as a run has steps left, and the
\* published progress never goes down while a run is going.
C18_CalibrationsSerialized ==
    [][/\ calibrationRuns' # {} => calibrationMode'
       /\ calibrationRuns # {} => calibrationProgress' >= calibrationProgress]_vars

\* the early detector has processed the frame on which the eyes opened
\* after closure i
EdgeSeen(i) == eyes[i].opened > 0 /\ (now > eyes[i].opened \/ frameSeen)

\* no confirmation timer of the early detector is outstanding
NoneToConfirm == \A t \in blinkTimers : t.kind # "single"

\* C20: when the user has blinked once, the early detector calls no
\* response handler until the confirmation timer of the blink has run and
\* from then on has called exactly the 'yes' handler, once; when the user
\* has blinked twice with the eyes opening less than 450 ms apart, it
\* calls no response handler until the second opening is seen and from
\* then on has called exactly the 'no' handler, once.
C20_EarlyBlinkResponses ==
    /\ (Len(eyes) = 1 /\ eyes[1].opened > 0) =>
          responses = IF EdgeSeen(1) /\ NoneToConfirm THEN <<"yes">> ELSE <<>>
    /\ (/\ Len(eyes) = 2 /\ eyes[2].opened > 0
        /\ eyes[2].opened - eyes[1].opened < earlyDoubleWindow) =>
          responses = IF EdgeSeen(2) THEN <<"no">> ELSE <<>>

\* two blinks 449 ms apart were answered with 'no' and every timer has run
C20_DoubleAnswered ==
    /\ Len(eyes) = 2 /\ eyes[2].opened - eyes[1].opened = 449
    /\ responses = <<"no">> /\ blinkTimers = {}

\* the candidates of gesture g submitted on this step, by their place in
\* the log
NewCandsOf(g) ==
    {i \in (Len(cands) + 1)..Len(cands') : cands'[i].gestureType = g}

\* the frame of this step reaches the nod detector past its baseline
NodFrame ==
    /\ FrameStep /\ video.faceDetected
    /\ video.noseTip # Missing /\ video.forehead # Missing
    /\ objs[cur].neutralHeadPitch # 0

\* C21: on a frame of the nod detector, if after the frame's count update
\* nodCount > 0, more than NOD_COOLDOWN has passed since lastNodTime and
\* no nod response is pending, exactly one nod candidate is submitted,
\* 'yes' for a count of 1 and 'no' for a count of 2 or more, and nodCount
\* is 0 afterwards; on every other frame no nod candidate is submitted and
\* nodCount is not reset.
C21_NodClassification ==
    [][LET before == objs[cur]
           after == objs'[cur']
       IN /\ NodFrame =>
               IF /\ before.nodCount > 0
                  /\ now - after.lastNodTime > NOD_COOLDOWN
                  /\ before.pendingNodResponse = Null
               THEN /\ Cardinality(NewCandsOf("nod")) = 1
                    /\ \A i \in NewCandsOf("nod") :
                          cands'[i].value = IF before.nodCount = 1 THEN "yes" ELSE "no"
                    /\ after.nodCount = 0
               ELSE /\ NewCandsOf("nod") = {}
                    /\ after.nodCount >= before.nodCount
          /\ ~NodFrame => NewCandsOf("nod") = {}]_vars

\* two nods were counted and, the cooldown over, answered with 'no'
C21_TwoNodsNo ==
    /\ Len(cands) = 1
    /\ cands[1].gestureType = "nod" /\ cands[1].value = "no"
    /\ objs[cur].nodCount = 0 /\ objs[cur].pendingNodResponse = "no"

\* C22: on a frame of the nod detector nodCount goes up, by one, only if
\* the distance exceeds baseline x 1.2 while isNodding is false, and then
\* isNodding is set; isNodding is cleared only by a distance at or below
\* 0.9 x that threshold; a distance inside the band in between changes
\* neither.  (A distance that is exactly baseline x 1.2, or exactly 0.9 x
\* that, on the grid is one whose doubles may compare either way.)
C22_NodHysteresis ==
    [][NodFrame =>
         LET before == objs[cur]
             after == objs'[cur']
             distance == Abs(video.noseTip.y - video.forehead.y)
             threshold100 == before.neutralHeadPitch * nodThresholdMultiplier
             exceeds == distance * 100 >= threshold100
             atOrBelowRelease == distance * 100 * 100 <= threshold100 * nodReleasePercent
         IN /\ after.nodCount > before.nodCount =>
                 /\ exceeds /\ ~before.isNodding /\ after.isNodding
                 /\ after.nodCount = before.nodCount + 1
            /\ (~before.isNodding /\ after.isNodding) =>
                 after.nodCount = before.nodCount + 1
            /\ (before.isNodding /\ ~after.isNodding) => atOrBelowRelease
            /\ (~exceeds /\ ~atOrBelowRelease) =>
                 /\ after.isNodding = before.isNodding
                 /\ after.nodCount <= before.nodCount]_vars

\* a second nod has been counted while the head is down, after the head
\* had been inside the band
C22_SecondNodCounted ==
    /\ objs[cur].nodCount = 2 /\ objs[cur].isNodding
    /\ video = NodPitch(130)

\* the frame of this step reaches the wave detector
WaveFrame ==
    /\ FrameStep /\ video.faceDetected
    /\ video.faceLeft # Missing /\ video.faceRight # Missing

\* the point the wave detector takes from the frame, in half thousandths
WavePoint ==
    [x |-> video.faceLeft.x + video.faceRight.x,
     y |-> video.faceLeft.y + video.faceRight.y]

\* h2 is what h1 becomes when point p arrives and at most historySize
\* points, the most recent ones, are kept in arrival order
Arrived(h1, p, h2) ==
    LET kept == Len(h2) - 1
    IN /\ Len(h2) = IF Len(h1) + 1 <= historySize THEN Len(h1) + 1 ELSE historySize
       /\ h2[Len(h2)] = p
       /\ \A k \in 1..kept : h2[k] = h1[Len(h1) - kept + k]

\* C23: after a frame of the wave detector handPositionHistory holds at
\* most historySize points: the earlier ones and the new one, the oldest
\* dropped beyond historySize, in arrival order (or none, when a candidate
\* was submitted on the frame); while it holds fewer than 5 points
\* waveCount and isWaving do not change and no wave candidate is submitted.
C23_WaveHistoryBounded ==
    [][WaveFrame =>
         LET before == objs[cur]
             after == objs'[cur']
         IN /\ Len(after.handPositionHistory) <= historySize
            /\ \/ Arrived(before.handPositionHistory, WavePoint,
                           after.handPositionHistory)
               \/ /\ after.handPositionHistory = <<>>
                  /\ NewCandsOf("handWave") # {}
            /\ Len(before.handPositionHistory) + 1 < waveMinHistory =>
                  /\ after.waveCount = before.waveCount
                  /\ after.isWaving = before.isWaving
                  /\ NewCandsOf("handWave") = {}]_vars

\* the history is full, its oldest points have been dropped, and the
\* newest point is where the face has just moved to
C23_HistoryRolled ==
    /\ Len(objs[cur].handPositionHistory) = historySize
    /\ objs[cur].handPositionHistory[1].x = 2 * 500
    /\ objs[cur].handPositionHistory[historySize].x = 2 * 570
    /\ objs[cur].waveCount = 1 /\ objs[cur].lastWaveTime = StartTime + 800

\* C24: on a frame of the wave detector, if after the frame's count update
\* waveCount > 0, more than WAVE_COOLDOWN has passed since lastWaveTime
\* and no wave response is pending, exactly one wave candidate is
\* submitted, 'yes' for a count of 1 and 'no' for 2 or more, and then
\* waveCount is 0 and the history empty; otherwise none is submitted.
\* waveCount goes up, by one, only when the movement exceeds
\* WAVE_THRESHOLD while isWaving is false, and isWaving is cleared only
\* by a movement below half the threshold.
C24_WaveClassification ==
    [][LET before == objs[cur]
           after == objs'[cur']
           movement == totalMovement(SliceLast(Append(before.handPositionHistory,
                                                      WavePoint), historySize))
       IN /\ WaveFrame =>
               /\ IF /\ before.waveCount > 0
                     /\ now - after.lastWaveTime > WAVE_COOLDOWN
                     /\ before.pendingWaveResponse = Null
                  THEN /\ Cardinality(NewCandsOf("handWave")) = 1
                       /\ \A i \in NewCandsOf("handWave") :
                             cands'[i].value
                               = IF before.waveCount = 1 THEN "yes" ELSE "no"
                       /\ after.waveCount = 0
                       /\ after.handPositionHistory = <<>>
                  ELSE /\ NewCandsOf("handWave") = {}
                       /\ after.waveCount >= before.waveCount
               /\ after.waveCount > before.waveCount =>
                     /\ TRUE \in waveAbove(movement)
                     /\ ~before.isWaving /\ after.isWaving
                     /\ after.waveCount = before.waveCount + 1
               /\ (before.isWaving /\ ~after.isWaving) => TRUE \in waveBelow(movement)
          /\ ~WaveFrame => NewCandsOf("handWave") = {}]_vars

\* two waves were counted and, the cooldown over, answered with 'no'
C24_TwoWavesNo ==
    /\ Len(cands) = 1
    /\ cands[1].gestureType = "handWave" /\ cands[1].value = "no"
    /\ objs[cur].waveCount = 0 /\ objs[cur].handPositionHistory = <<>>

\* C25: a 'no' candidate of gesture smile is submitted only on a frame
\* whose mouth width is at or below the threshold while isSmiling is set,
\* and only if no 'yes' candidate of gesture smile was submitted since that
\* smile began.
C25_SmileRetraction ==
    [][\A i \in NewCandsOf("smile") :
          cands'[i].value = "no" =>
              LET before == objs[cur]
                  mouthWidth == calculateDistance(video.mouthLeft, video.mouthRight)
              IN /\ FrameStep
                 /\ before.isSmiling
                 /\ FALSE \in smileAbove(mouthWidth, before.neutralMouthWidth)
                 /\ \A j \in 1..Len(cands) :
                       ~(/\ cands[j].gestureType = "smile" /\ cands[j].value = "yes"
                         /\ cands[j].at >= before.smileStartTime)]_vars

\* the closures of the video that are genuine blinks
GenuineBlinks == {j \in 1..Len(eyes) : Genuine(j)}

\* the genuine blink before genuine blink k, if there is one
PreviousBlink(k) ==
    {j \in GenuineBlinks :
        /\ eyes[j].opened < eyes[k].opened
        /\ \A h \in GenuineBlinks :
              eyes[h].opened < eyes[k].opened => eyes[h].opened <= eyes[j].opened}

\* the blinks that blink candidate i answers: the blink whose deferred
\* check submitted the 'yes', or the two blinks of the double blink
AnsweredBlinks(i) ==
    IF cands[i].value = "yes"
    THEN {j \in GenuineBlinks : eyes[j].opened = cands[i].at - confirmationDelay}
    ELSE LET second == {k \in GenuineBlinks : eyes[k].opened = cands[i].at}
         IN second \cup UNION {PreviousBlink(k) : k \in second}

\* C26: a 'yes' candidate of gesture blink comes from the deferred check of
\* a genuine blink after which no further genuine blink completed before
\* the check ran; a 'no' candidate comes from a genuine blink that
\* completed less than doubleBlinkWindow after the genuine blink before
\* it; and no blink is answered by more than one candidate.
C26_BlinkTieBreak ==
    LET blinkCands == {i \in 1..Len(cands) : cands[i].gestureType = "blink"}
    IN /\ \A i \in blinkCands :
             IF cands[i].value = "yes"
             THEN /\ Cardinality(AnsweredBlinks(i)) = 1
                  /\ \A j \in GenuineBlinks :
                        eyes[j].opened > cands[i].at - confirmationDelay
                            => eyes[j].opened >= cands[i].at
             ELSE /\ Cardinality(AnsweredBlinks(i)) = 2
                  /\ \A j \in AnsweredBlinks(i) :
                        cands[i].at - eyes[j].opened < doubleBlinkWindow
       /\ \A i1, i2 \in blinkCands :
             i1 # i2 => AnsweredBlinks(i1) \cap AnsweredBlinks(i2) = {}

\* a second genuine blink completed outside the double-blink window but
\* before the deferred check of the first one, which then ran and
\* submitted nothing
C26_LaterBlinkSilencesCheck ==
    /\ Len(eyes) = 2 /\ Genuine(1) /\ Genuine(2)
    /\ eyes[2].opened - eyes[1].opened >= doubleBlinkWindow
    /\ eyes[2].opened < eyes[1].opened + confirmationDelay
    /\ now >= eyes[1].opened + confirmationDelay
    /\ DeferredTimers = {} /\ cands = <<>>

\* C27: after a frame on which detectBlink ran, every entry of
\* blinkHistory is the time the eyes opened after a genuine blink and is
\* less than blinkHistoryWindow older than the frame.
C27_RollingBlinkHistory ==
    [][(FrameStep /\ video.faceDetected) =>
         LET history == objs'[cur'].blinkHistory
         IN \A k \in 1..Len(history) :
               /\ now - history[k] < blinkHistoryWindow
               /\ \E j \in GenuineBlinks : eyes[j].opened = history[k]]_vars

\* C28: after a single blink of 100 ms and no further blink, once
\* confirmationDelay has passed since the eyes opened and the callbacks
\* due by then have run, the FinalSignal 'yes' of gesture blink has been
\* delivered.
C28_SingleBlinkLatency ==
    (/\ SingleCleanBlink /\ Seen(1)
     /\ now >= eyes[1].opened + confirmationDelay /\ Quiet) =>
        /\ Len(finals) = 1
        /\ finals[1].value = "yes" /\ finals[1].gestureType = "blink"

\* the first two candidates are a 'yes' of gesture blink and, before the
\* hold of the 'yes' was over, the 'no' of a double blink
LateCorrection ==
    /\ Len(cands) >= 2
    /\ cands[1].gestureType = "blink" /\ cands[1].value = "yes"
    /\ cands[2].gestureType = "blink" /\ cands[2].value = "no"
    /\ cands[2].at - cands[1].at < gateHoldDelay

\* C29: when a double blink completes while the 'yes' of an earlier blink
\* is held in the gate, the 'no' replaces it: from then on the pending
\* blink response and the only hold timer carry 'no', the 'yes' is never
\* delivered, and the FinalSignal delivered for the window is 'no'.
C29_LateCorrection ==
    LateCorrection =>
        /\ Len(finals) >= 1 => finals[1].value = "no"
        /\ Len(cands) = 2 =>
              /\ YesFinals = {}
              /\ \A t \in GateTimers : t.response = "no"
              /\ objs[cur].pendingBlinkResponse = IF GateTimers = {} THEN Null ELSE "no"
              /\ Len(finals) = IF GateTimers = {} THEN 1 ELSE 0

\* three blinks: the first was confirmed as single, the other two made a
\* double blink during its hold, and the one FinalSignal delivered is 'no'
C29_Corrected ==
    /\ LateCorrection /\ Len(eyes) = 3
    /\ Len(finals) = 1 /\ finals[1].value = "no" /\ finals[1].held = gateHoldDelay
    /\ timers = {}

\* C30: a step of calibrateGesture, the call or the code after one of its
\* delays, leaves the gesture state objects, the pending candidates, the
\* timers of the gate and of the blink detector, and the candidates and
\* FinalSignals so far as they were.
C30_CalibrationLeavesDetectors ==
    [][calibrationVars' # calibrationVars =>
         /\ objs' = objs /\ cur' = cur
         /\ timers' = timers /\ gestureTimeoutRef' = gestureTimeoutRef
         /\ cands' = cands /\ finals' = finals
         /\ activeGesture' = activeGesture]_vars

\* a calibration has run from start to end; meanwhile a 'yes' was
\* submitted, held in the gate and delivered; the baselines are the ones
\* captured before the calibration
C30_CalibratedWhilePending ==
    /\ StartedRuns = {1} /\ calibrationRuns = {} /\ Len(progressLog) = 6
    /\ Len(cands) = 1 /\ progressLog[1].at < cands[1].at
    /\ Len(finals) = 1
    /\ objs[cur].neutralMouthWidth = [squared |-> 40 * 40]
    /\ objs[cur].neutralHeadPitch = 100

\* when the detectors were last invoked by any detection loop
LastInvocation ==
    LET times == {loops[l].lastDetectionTime : l \in 1..Len(loops)} \cup {0}
    IN CHOOSE t \in times : \A u \in times : u <= t

\* a step in which detect() gets past its throttle: a frame of a running
\* loop, or the synchronous first call of a loop that has just been started
DetectorsInvoked ==
    \E l \in 1..Len(loops') :
        /\ loops'[l].lastDetectionTime = now
        /\ l <= Len(loops) => loops[l].lastDetectionTime # now

\* C31: across any sequence of question selections, two consecutive
\* invocations of the detectors are at least detectionInterval apart: no
\* second detection loop feeds frames to the detectors.
C31_FramesConsumedSerially ==
    [][DetectorsInvoked => now - LastInvocation >= detectionInterval]_vars

\* a step in which the early detector raises a 'yes'
EarlyYesRaised ==
    /\ Len(responses') = Len(responses) + 1
    /\ responses'[Len(responses')] = "yes"

\* C32: the early detector raises a 'yes' only when at least 450 ms have
\* passed since the most recent falling edge it saw: the confirmation
\* timer of an earlier blink never confirms a later blink that is less
\* than 450 ms old.
C32_NoStaleConfirmation ==
    [][EarlyYesRaised => now - lastBlinkRef >= earlyDoubleWindow]_vars

\* the setTimeout callbacks of the response handlers that run on this step
ResponseTimersRun == {t \in blinkTimers \ blinkTimers' : t.kind = "response"}

\* C33: in the early detector every response records its answer at the
\* index of the question shown, which had no answer yet, and moves
\* currentQuestionIndex on by exactly one, or navigates to '/' when the
\* question shown was the last; the index never exceeds questions.length - 1.
C33_QuestionProgression ==
    [][/\ currentQuestionIndex' <= questionsLength - 1
       /\ \A t \in ResponseTimersRun :
             /\ currentQuestionIndex \notin DOMAIN userResponsesRef
             /\ currentQuestionIndex \in DOMAIN userResponsesRef'
             /\ userResponsesRef'[currentQuestionIndex] = t.answer
             /\ IF currentQuestionIndex >= questionsLength - 1
                THEN navigated' /\ currentQuestionIndex' = currentQuestionIndex
                ELSE /\ navigated' = navigated
                     /\ currentQuestionIndex' = currentQuestionIndex + 1]_vars

====
